---- MODULE Spec2Model ----
(***************************************************************************)
(* Model of src/app.py, the StyleNest sales dashboard: one run of the      *)
(* script from the upload to the PDF export.  Every block of the script is *)
(* one action; an uncaught exception ends the run (pc = "raised").         *)
(*                                                                         *)
(* Encoding.  A dataset is a sequence of rows, a row a function from       *)
(* column names to integers.  Category labels (Channel, Sales Rep, ...)    *)
(* are encoded by their rank in label order (1, 2, ...), numeric cells are *)
(* naturals, a Date cell is a number of ticks (TicksPerDay ticks a day),   *)
(* and NaN is the missing value (NaN, NaT) of every column.  Floats are    *)
(* exact rationals [num, den]; den = 0 is the float NaN.                   *)
(* sort_values uses an unstable sort: the order of rows that tie on the    *)
(* sort key is a nondeterministic choice.                                  *)
(***************************************************************************)
EXTENDS Integers, Sequences, FiniteSets, TLC

VARIABLES uploaded, cols, df, selAll, pc, raised, metrics, kpi, view,
          chan, df_week, tod, rep, cust, recs, top_channels, top_reps,
          meta, text_report, pdf

(* uploaded: the file of the upload control, <<>> for none.  cols, df: the  *)
(* columns and rows of df.  selAll: every filter widget returned its        *)
(* default.  pc: the block of the script to run next.  raised: the          *)
(* exception and line that ended the run.  view: what each section showed.  *)
(* The other variables are the script's variables of the same name, <<>>    *)
(* until assigned.                                                          *)
vars == <<uploaded, cols, df, selAll, pc, raised, metrics, kpi, view,
          chan, df_week, tod, rep, cust, recs, top_channels, top_reps,
          meta, text_report, pdf>>

----------------------------------------------------------------------------
(* Bounds of the model *)
MaxRows == 2
MaxRev == 2
MaxTick == 4
TicksPerDay == 2
MaxReps == 14

(* Program constants *)
NaN == -1
QuantileNum == 1
QuantileDen == 4
CoachMax == 3
TopN == 5
PdfMaxRecs == 5

(* An unparseable Date cell of the uploaded file *)
BadDate == 0 - 2

DataCols == {"Date", "Time of Day", "Channel", "Revenue", "Average Order Size",
             "Conversions", "Customer Type", "Sales Rep", "Business"}
AllCols == DataCols \cup {"Stock"}

InventoryNames == {"stock", "inventory", "return", "returns", "return_flag",
                   "return_quantity"}

(* c.lower() on the column names of the model *)
Lower(c) ==
  CASE c = "Date" -> "date"
    [] c = "Time of Day" -> "time of day"
    [] c = "Channel" -> "channel"
    [] c = "Revenue" -> "revenue"
    [] c = "Average Order Size" -> "average order size"
    [] c = "Conversions" -> "conversions"
    [] c = "Customer Type" -> "customer type"
    [] c = "Sales Rep" -> "sales rep"
    [] c = "Business" -> "business"
    [] c = "Stock" -> "stock"
    [] OTHER -> c

----------------------------------------------------------------------------
(* Rationals *)
Rat(n, d) == [num |-> n, den |-> d]
NaNF == Rat(0, 0)
IsNaN(x) == x.den = 0
Div(n, d) == IF d = 0 THEN NaNF ELSE Rat(n, d)
RatLess(a, b) == ~IsNaN(a) /\ ~IsNaN(b) /\ a.num * b.den < b.num * a.den
RatEq(a, b) == ~IsNaN(a) /\ ~IsNaN(b) /\ a.num * b.den = b.num * a.den

(* format(x, ".0f"): round half to even; <<>> is "nan" *)
RoundHalfEven(x) ==
  LET q == x.num \div x.den
      r == x.num % x.den
  IN  IF 2 * r < x.den THEN q
      ELSE IF 2 * r > x.den THEN q + 1
      ELSE IF q % 2 = 0 THEN q ELSE q + 1
(* format(x, ".<k>f") in units of 1/scale (scale = 10^k); <<>> is "nan" *)
Fmt(x, scale) ==
  IF IsNaN(x) THEN <<>> ELSE <<RoundHalfEven(Rat(x.num * scale, x.den))>>

----------------------------------------------------------------------------
(* Series helpers *)
RECURSIVE SumSeq(_)
SumSeq(s) == IF s = <<>> THEN 0 ELSE Head(s) + SumSeq(Tail(s))

Column(d, c) == [i \in 1..Len(d) |-> d[i][c]]
NotNa(s) == SelectSeq(s, LAMBDA v : v # NaN)
SetMin(S) == CHOOSE x \in S : \A y \in S : x <= y
SetMax(S) == CHOOSE x \in S : \A y \in S : x >= y
Range(s) == {s[i] : i \in 1..Len(s)}

RECURSIVE SortedSeq(_)
SortedSeq(S) ==
  IF S = {} THEN <<>> ELSE <<SetMin(S)>> \o SortedSeq(S \ {SetMin(S)})

(* Series.sum(): NaN cells are skipped *)
Sum(d, c) == SumSeq(NotNa(Column(d, c)))
(* Series.count(): the cells that are not NaN *)
Count(d, c) == Len(NotNa(Column(d, c)))
(* Series.mean(): NaN for no value *)
Mean(d, c) == Div(Sum(d, c), Count(d, c))

safe_sum(d, c) == Sum(d, c)

----------------------------------------------------------------------------
(* The uploaded files of the model.  A file is [cols, rows]; every row      *)
(* holds NaN in the columns the file does not have.                         *)
Labels == {1, 2}
ConvVals == {0, 1}

MkRow(date, key, rev, conv, aos) ==
  [c \in AllCols |->
     CASE c = "Date" -> date
       [] c = "Revenue" -> rev
       [] c = "Conversions" -> conv
       [] c = "Average Order Size" -> aos
       [] c = "Stock" -> 1
       [] OTHER -> key]

Restrict(r, cs) == [c \in AllCols |-> IF c \in cs THEN r[c] ELSE NaN]

RECURSIVE SeqsUpTo(_, _)
SeqsUpTo(S, n) ==
  IF n = 0 THEN {<<>>}
  ELSE LET P == SeqsUpTo(S, n - 1)
       IN  P \cup {Append(p, x) : p \in {q \in P : Len(q) = n - 1}, x \in S}

(* Row order does not reach any result of the script except through the    *)
(* order of ties, which is nondeterministic: the files of AggFiles list    *)
(* their rows in a fixed order.                                            *)
RowCode(r) ==
  (((r["Channel"] + 1) * (MaxRev + 1)) + r["Revenue"]) * 3 + (r["Conversions"] + 1)
Ordered(s) == \A i \in 1..(Len(s) - 1) : RowCode(s[i]) <= RowCode(s[i + 1])

File(cs, rows) == [cols |-> cs, rows |-> rows]

(* every subset of the columns, one row *)
ColumnFiles ==
  {File(cs, <<Restrict(MkRow(0, 1, 2, 1, 2), cs)>>) : cs \in SUBSET AllCols}

(* Revenue, Conversions, Average Order Size present or not, few rows *)
MetricFiles ==
  UNION {
    {File(cs, rows) :
       rows \in SeqsUpTo({Restrict(MkRow(NaN, NaN, rev, conv, 1), cs) :
                            rev \in 0..MaxRev, conv \in ConvVals}, MaxRows)} :
    cs \in SUBSET {"Revenue", "Conversions", "Average Order Size"}}

(* grouping columns with missing labels, ties and zero conversions *)
AggFiles ==
  UNION {
    {File(cs, rows) :
       rows \in {s \in SeqsUpTo({Restrict(MkRow(NaN, key, rev, conv, 1), cs) :
                                   key \in Labels \cup {NaN}, rev \in 0..MaxRev,
                                   conv \in ConvVals}, MaxRows) : Ordered(s)}} :
    cs \in {{"Channel", "Revenue", "Sales Rep", "Time of Day"},
            {"Channel", "Revenue", "Sales Rep", "Time of Day", "Conversions"}}}

(* dates: missing, unparseable, at midnight and later in the day; at least *)
(* one Date of the file parses, so that lo and hi of line 178 are dates     *)
DateFiles ==
  LET cs == {"Date", "Channel", "Revenue"}
  IN  {File(cs, rows) :
         rows \in {s \in SeqsUpTo({Restrict(MkRow(d, 1, 1, NaN, NaN), cs) :
                                     d \in (0..MaxTick) \cup {NaN, BadDate}}, MaxRows) :
                     \E i \in 1..Len(s) : s[i]["Date"] >= 0}}

(* many sales reps, one row each, no two with the same revenue *)
RepFiles ==
  LET cs == {"Sales Rep", "Revenue"}
  IN  {File(cs, [i \in 1..n |->
                   Restrict(MkRow(NaN, i, IF p = 1 THEN i
                                          ELSE IF p = 2 THEN n - i
                                          ELSE 2 * i, NaN, NaN), cs)]) :
         n \in 0..MaxReps, p \in {1, 2, 3}}

Uploads == ColumnFiles \cup MetricFiles \cup AggFiles \cup DateFiles \cup RepFiles

----------------------------------------------------------------------------
(* load_data, lines 30-45: pd.to_datetime(errors='coerce') turns a value   *)
(* that does not parse into NaT.                                            *)
to_datetime(v) == IF v = BadDate THEN NaN ELSE v

ParseRow(r, cs) ==
  [c \in AllCols |-> IF c = "Date" /\ "Date" \in cs THEN to_datetime(r[c]) ELSE r[c]]

ParseRows(rows, cs) == [i \in 1..Len(rows) |-> ParseRow(rows[i], cs)]

Sections == {"channel", "trend", "tod", "rep", "cust"}

Init ==
  /\ uploaded \in {<<>>} \cup {<<f>> : f \in Uploads}
  /\ cols = {}
  /\ df = <<>>
  /\ selAll = FALSE
  /\ pc = "load"
  /\ raised = "none"
  /\ metrics = <<>>
  /\ kpi = <<>>
  /\ view = [s \in Sections |-> "pending"]
  /\ chan = <<>>
  /\ df_week = <<>>
  /\ tod = <<>>
  /\ rep = <<>>
  /\ cust = <<>>
  /\ recs = <<>>
  /\ top_channels = <<>>
  /\ top_reps = <<>>
  /\ meta = <<>>
  /\ text_report = <<>>
  /\ pdf = <<>>

(* lines 169-173: no file, or a dataset *)
LoadData ==
  /\ pc = "load"
  /\ IF uploaded = <<>>
     THEN /\ pc' = "stopped"
          /\ UNCHANGED <<cols, df>>
     ELSE /\ pc' = "filters"
          /\ cols' = uploaded[1].cols
          /\ df' = ParseRows(uploaded[1].rows, uploaded[1].cols)
  /\ UNCHANGED <<uploaded, selAll, raised, metrics, kpi, view, chan, df_week, tod,
                 rep, cust, recs, top_channels, top_reps, meta, text_report, pdf>>

----------------------------------------------------------------------------
(* Filters, lines 176-195 *)
DateOf(t) == t \div TicksPerDay          \* Timestamp.date()
Midnight(day) == day * TicksPerDay       \* pd.to_datetime(date)
ValidDates(d) == Range(NotNa(Column(d, "Date")))
Lo(d) == DateOf(SetMin(ValidDates(d)))
Hi(d) == DateOf(SetMax(ValidDates(d)))

(* st.date_input: a range inside [lo, hi], or one date while the user is   *)
(* still picking the range                                                  *)
DateInputs(d) ==
  IF "Date" \in cols
  THEN UNION {{<<a, b>> : b \in a..Hi(d)} : a \in Lo(d)..Hi(d)}
         \cup {<<a>> : a \in Lo(d)..Hi(d)}
  ELSE {<<>>}

(* line 181: a comparison with NaT is False *)
DateFilter(d, dr) ==
  IF Len(dr) = 2
  THEN SelectSeq(d, LAMBDA r : /\ r["Date"] # NaN
                               /\ r["Date"] >= Midnight(dr[1])
                               /\ r["Date"] <= Midnight(dr[2]))
  ELSE d

(* Series.unique(): NaN is one of the values *)
Unique(d, c) == IF c \in cols THEN Range(Column(d, c)) ELSE {}

(* lines 184-185: no selection, no filter; isin matches NaN with NaN *)
IsinFilter(d, c, sel) ==
  IF sel # {} THEN SelectSeq(d, LAMBDA r : r[c] \in sel) ELSE d

DefaultRange(d, dr) == "Date" \in cols => dr = <<Lo(d), Hi(d)>>

Filters ==
  /\ pc = "filters"
  /\ \E dr \in DateInputs(df) :
       LET d1 == DateFilter(df, dr) IN
       \E sel_channels \in SUBSET Unique(d1, "Channel") :
         LET d2 == IsinFilter(d1, "Channel", sel_channels) IN
         \E sel_cust \in SUBSET Unique(d2, "Customer Type") :
           LET d3 == IsinFilter(d2, "Customer Type", sel_cust) IN
           \E sel_biz \in SUBSET Unique(d3, "Business") :
             /\ df' = IsinFilter(d3, "Business", sel_biz)
             /\ selAll' = /\ DefaultRange(df, dr)
                          /\ sel_channels = Unique(d1, "Channel")
                          /\ sel_cust = Unique(d2, "Customer Type")
                          /\ sel_biz = Unique(d3, "Business")
  /\ pc' = "metrics"
  /\ UNCHANGED <<uploaded, cols, raised, metrics, kpi, view, chan, df_week, tod,
                 rep, cust, recs, top_channels, top_reps, meta, text_report, pdf>>

----------------------------------------------------------------------------
(* compute_metrics without the fallback of orders to the row count *)
compute_metrics_no_fallback(d) ==
  LET rev == IF "Revenue" \in cols THEN safe_sum(d, "Revenue") ELSE 0
      conversions == IF "Conversions" \in cols THEN safe_sum(d, "Conversions") ELSE 0
      orders == conversions
      aov == IF orders > 0 THEN Rat(rev, orders)
             ELSE IF "Average Order Size" \in cols THEN Mean(d, "Average Order Size")
             ELSE Rat(0, 1)
      conv_rate == IF Len(d) > 0 /\ "Conversions" \in cols
                   THEN Rat(conversions, Len(d)) ELSE NaNF
  IN  [revenue |-> rev, orders |-> orders, aov |-> aov, conv_rate |-> conv_rate,
       rows |-> Len(d)]

(* compute_metrics, lines 53-60 *)
compute_metrics(d) ==
  LET rev == IF "Revenue" \in cols THEN safe_sum(d, "Revenue") ELSE 0
      conversions == IF "Conversions" \in cols THEN safe_sum(d, "Conversions") ELSE 0
      orders == IF conversions > 0 THEN conversions ELSE Len(d)
      aov == IF orders > 0 THEN Rat(rev, orders)
             ELSE IF "Average Order Size" \in cols THEN Mean(d, "Average Order Size")
             ELSE Rat(0, 1)
      conv_rate == IF Len(d) > 0 /\ "Conversions" \in cols
                   THEN Rat(conversions, Len(d)) ELSE NaNF
  IN  [revenue |-> rev, orders |-> orders, aov |-> aov, conv_rate |-> conv_rate,
       rows |-> Len(d)]

(* conv_rate * 100 *)
Percent(x) == Rat(100 * x.num, x.den)

(* the KPI block of the cards (lines 201-210) and of the text report (lines *)
(* 308-312), two decimals, and of the PDF (lines 113-117), none and one;    *)
(* an empty conv is "N/A", an empty aov is "nan"                            *)
KpiBlock(m, scale, convScale) ==
  [revenue |-> Fmt(Rat(m.revenue, 1), scale),
   orders |-> m.orders,
   aov |-> Fmt(m.aov, scale),
   conv |-> Fmt(Percent(m.conv_rate), convScale)]

KpiCards(m) == KpiBlock(m, 100, 100)

Metrics ==
  /\ pc = "metrics"
  /\ metrics' = <<compute_metrics(df)>>
  /\ kpi' = <<KpiCards(compute_metrics(df))>>
  /\ pc' = "channel"
  /\ UNCHANGED <<uploaded, cols, df, selAll, raised, view, chan, df_week, tod,
                 rep, cust, recs, top_channels, top_reps, meta, text_report, pdf>>

----------------------------------------------------------------------------
(* groupby(key).agg(...).reset_index(): one row per label, in label order; *)
(* groupby drops the rows whose label is NaN (dropna=True).                 *)
GroupKeys(d, key) == Range(Column(d, key)) \ {NaN}
GroupRows(d, key, k) == SelectSeq(d, LAMBDA r : r[key] = k)

Summary(g, k) ==
  [key |-> k,
   Revenue |-> Sum(g, "Revenue"),
   Conversions |-> IF "Conversions" \in cols THEN Sum(g, "Conversions")
                   ELSE Count(g, "Revenue"),
   Avg_Order |-> IF "Average Order Size" \in cols THEN Mean(g, "Average Order Size")
                 ELSE Mean(g, "Revenue")]

Agg(d, key) ==
  LET ks == SortedSeq(GroupKeys(d, key))
  IN  [i \in 1..Len(ks) |-> Summary(GroupRows(d, key, ks[i]), ks[i])]

(* Revenue / Conversions.replace(0, np.nan) *)
Rev_per_Conv(t) == Div(t.Revenue, t.Conversions)

WithRPC(T) ==
  [i \in 1..Len(T) |->
     [key |-> T[i].key, Revenue |-> T[i].Revenue, Conversions |-> T[i].Conversions,
      Avg_Order |-> T[i].Avg_Order, Rev_per_Conv |-> Rev_per_Conv(T[i])]]

(* sort_values('Revenue', ascending=False): the rows in classes of equal   *)
(* Revenue, highest first; the order inside a class is not determined.      *)
RECURSIVE ClassesDesc(_)
ClassesDesc(S) ==
  IF S = {} THEN <<>>
  ELSE LET top == {t \in S : \A u \in S : u.Revenue <= t.Revenue}
       IN  <<top>> \o ClassesDesc(S \ top)

SortByRevenueDesc(T) == ClassesDesc(Range(T))

(* the rows of a sorted table, and the row sets head(n) may return *)
RECURSIVE TableRows(_)
TableRows(C) == IF C = <<>> THEN {} ELSE Head(C) \cup TableRows(Tail(C))

RECURSIVE HeadSets(_, _)
HeadSets(C, n) ==
  IF C = <<>> \/ n = 0 THEN {{}}
  ELSE IF Cardinality(Head(C)) <= n
       THEN {Head(C) \cup R : R \in HeadSets(Tail(C), n - Cardinality(Head(C)))}
       ELSE {R \in SUBSET Head(C) : Cardinality(R) = n}

Raise(site) ==
  /\ pc' = "raised"
  /\ raised' = site

(* Channel Funnel & Efficiency, lines 215-226 *)
ChannelSection ==
  /\ pc = "channel"
  /\ IF "Channel" \in cols
     THEN IF "Revenue" \in cols
          THEN /\ chan' = SortByRevenueDesc(WithRPC(Agg(df, "Channel")))
               /\ view' = [view EXCEPT !["channel"] = "shown"]
               /\ pc' = "trend"
               /\ UNCHANGED raised
          ELSE /\ Raise("KeyError:217")
               /\ UNCHANGED <<chan, view>>
     ELSE /\ view' = [view EXCEPT !["channel"] = "unavailable"]
          /\ pc' = "trend"
          /\ UNCHANGED <<chan, raised>>
  /\ UNCHANGED <<uploaded, cols, df, selAll, metrics, kpi, df_week, tod,
                 rep, cust, recs, top_channels, top_reps, meta, text_report, pdf>>

(* resample('W'): weeks end on Sunday; day 0 is a Sunday.  Every week from *)
(* the first to the last is a row; rows without a date are in no week.      *)
DaysPerWeek == 7
WeekEnd(t) == ((DateOf(t) + DaysPerWeek - 1) \div DaysPerWeek) * DaysPerWeek

Resample(d) ==
  LET ts == ValidDates(d)
      w0 == WeekEnd(SetMin(ts))
      n  == IF ts = {} THEN 0 ELSE (WeekEnd(SetMax(ts)) - w0) \div DaysPerWeek + 1
  IN  [i \in 1..n |->
         [Date |-> w0 + (i - 1) * DaysPerWeek,
          Revenue |-> Sum(SelectSeq(d, LAMBDA r :
                            r["Date"] # NaN /\
                            WeekEnd(r["Date"]) = w0 + (i - 1) * DaysPerWeek), "Revenue")]]

(* Revenue Trend (weekly), lines 233-239 *)
TrendSection ==
  /\ pc = "trend"
  /\ IF "Date" \in cols
     THEN IF "Revenue" \in cols
          THEN /\ df_week' = Resample(df)
               /\ view' = [view EXCEPT !["trend"] = "shown"]
               /\ pc' = "tod"
               /\ UNCHANGED raised
          ELSE /\ Raise("KeyError:235")
               /\ UNCHANGED <<df_week, view>>
     ELSE /\ view' = [view EXCEPT !["trend"] = "unavailable"]
          /\ pc' = "tod"
          /\ UNCHANGED <<df_week, raised>>
  /\ UNCHANGED <<uploaded, cols, df, selAll, metrics, kpi, chan, tod,
                 rep, cust, recs, top_channels, top_reps, meta, text_report, pdf>>

(* groupby(key)['Revenue'].sum() *)
RevenueBy(d, key) ==
  LET ks == SortedSeq(GroupKeys(d, key))
  IN  [i \in 1..Len(ks) |->
         [key |-> ks[i], Revenue |-> Sum(GroupRows(d, key, ks[i]), "Revenue")]]

(* Revenue by Time of Day, lines 242-248 *)
TimeOfDaySection ==
  /\ pc = "tod"
  /\ IF "Time of Day" \in cols
     THEN IF "Revenue" \in cols
          THEN /\ tod' = SortByRevenueDesc(RevenueBy(df, "Time of Day"))
               /\ view' = [view EXCEPT !["tod"] = "shown"]
               /\ pc' = "rep"
               /\ UNCHANGED raised
          ELSE /\ Raise("KeyError:244")
               /\ UNCHANGED <<tod, view>>
     ELSE /\ view' = [view EXCEPT !["tod"] = "unavailable"]
          /\ pc' = "rep"
          /\ UNCHANGED <<tod, raised>>
  /\ UNCHANGED <<uploaded, cols, df, selAll, metrics, kpi, chan, df_week,
                 rep, cust, recs, top_channels, top_reps, meta, text_report, pdf>>

(* Sales Rep Performance, lines 253-264 *)
SalesRepSection ==
  /\ pc = "rep"
  /\ IF "Sales Rep" \in cols /\ "Revenue" \in cols
     THEN /\ rep' = SortByRevenueDesc(WithRPC(Agg(df, "Sales Rep")))
          /\ view' = [view EXCEPT !["rep"] = "shown"]
     ELSE /\ view' = [view EXCEPT !["rep"] = "unavailable"]
          /\ UNCHANGED rep
  /\ pc' = "cust"
  /\ UNCHANGED <<uploaded, cols, df, selAll, raised, metrics, kpi, chan, df_week,
                 tod, cust, recs, top_channels, top_reps, meta, text_report, pdf>>

(* groupby('Customer Type').agg(Revenue, Conversions), line 271 *)
CustAgg(d) ==
  LET T == Agg(d, "Customer Type")
  IN  [i \in 1..Len(T) |->
         [key |-> T[i].key, Revenue |-> T[i].Revenue, Conversions |-> T[i].Conversions]]

(* Customer Segmentation, lines 269-276 *)
CustomerSection ==
  /\ pc = "cust"
  /\ IF "Customer Type" \in cols
     THEN IF "Revenue" \in cols
          THEN /\ cust' = CustAgg(df)
               /\ view' = [view EXCEPT !["cust"] = "shown"]
               /\ pc' = "recs"
               /\ UNCHANGED raised
          ELSE /\ Raise("KeyError:271")
               /\ UNCHANGED <<cust, view>>
     ELSE /\ view' = [view EXCEPT !["cust"] = "unavailable"]
          /\ pc' = "recs"
          /\ UNCHANGED <<cust, raised>>
  /\ UNCHANGED <<uploaded, cols, df, selAll, metrics, kpi, chan, df_week, tod,
                 rep, recs, top_channels, top_reps, meta, text_report, pdf>>

----------------------------------------------------------------------------
(* make_recommendations, lines 62-89.  A recommendation is                  *)
(* [kind, who, val]: the labels the message names and the number it shows.  *)
Msg(kind, who, val) == [kind |-> kind, who |-> who, val |-> val]
Outcome(site, r) == [raised |-> site, recs |-> r]

(* sort_values('Rev_per_Conv').iloc[0]: NaN sorts last, in table order; the *)
(* rows that tie for the first place may come in any order                  *)
FirstAsc(T) ==
  LET N == {t \in Range(T) : ~IsNaN(t.Rev_per_Conv)}
  IN  IF N = {} THEN {T[1]}
      ELSE {t \in N : \A u \in N : ~RatLess(u.Rev_per_Conv, t.Rev_per_Conv)}

FirstDesc(T) ==
  LET N == {t \in Range(T) : ~IsNaN(t.Rev_per_Conv)}
  IN  IF N = {} THEN {T[1]}
      ELSE {t \in N : \A u \in N : ~RatLess(t.Rev_per_Conv, u.Rev_per_Conv)}

(* lines 65-73; iloc[0] of an empty table raises IndexError *)
ChannelRule(d) ==
  IF "Channel" \in cols /\ "Revenue" \in cols
  THEN LET ch == WithRPC(Agg(d, "Channel"))
       IN  IF ch = <<>> THEN {Outcome("IndexError:70", <<>>)}
           ELSE {Outcome("none", <<Msg("best", <<b.key>>, b.Rev_per_Conv),
                                   Msg("worst", <<w.key>>, w.Rev_per_Conv)>>) :
                   b \in FirstDesc(ch), w \in FirstAsc(ch)}
  ELSE {Outcome("none", <<>>)}

(* lines 75-78; index[0] of an empty index raises IndexError *)
TimeOfDayRule(d) ==
  IF "Time of Day" \in cols /\ "Revenue" \in cols
  THEN LET t == SortByRevenueDesc(RevenueBy(d, "Time of Day"))
       IN  IF t = <<>> THEN {Outcome("IndexError:77", <<>>)}
           ELSE {Outcome("none", <<Msg("peak", <<top.key>>, NaNF)>>) : top \in t[1]}
  ELSE {Outcome("none", <<>>)}

RECURSIVE Insert(_, _)
Insert(x, s) ==
  IF s = <<>> THEN <<x>>
  ELSE IF x <= Head(s) THEN <<x>> \o s ELSE <<Head(s)>> \o Insert(x, Tail(s))

RECURSIVE SortInts(_)
SortInts(s) == IF s = <<>> THEN <<>> ELSE Insert(Head(s), SortInts(Tail(s)))

(* Series.quantile(0.25), linear interpolation; NaN for no value *)
Quantile(vals) ==
  LET v == SortInts(vals)
      h == (Len(v) - 1) * QuantileNum
      i == h \div QuantileDen
      r == h % QuantileDen
  IN  IF Len(v) = 0 THEN NaNF
      ELSE IF r = 0 THEN Rat(v[i + 1] * QuantileDen, QuantileDen)
      ELSE Rat(v[i + 1] * QuantileDen + r * (v[i + 2] - v[i + 1]), QuantileDen)

(* the comparison with the threshold made inclusive *)
AtOrBelowThreshold(revenue, q) ==
  RatLess(Rat(revenue, 1), q) \/ RatEq(Rat(revenue, 1), q)

(* rep['Revenue'] < quantile *)
BelowThreshold(revenue, q) == RatLess(Rat(revenue, 1), q)

(* low.sort_values('Revenue').head(n)['Sales Rep']: lowest revenue first *)
RECURSIVE LowestFirst(_, _)
LowestFirst(S, n) ==
  IF S = {} \/ n = 0 THEN {<<>>}
  ELSE UNION {{<<m.key>> \o t : t \in LowestFirst(S \ {m}, n - 1)} :
                m \in {x \in S : \A y \in S : x.Revenue <= y.Revenue}}

(* lines 80-85 *)
RepRule(d) ==
  IF "Sales Rep" \in cols /\ "Revenue" \in cols
  THEN LET T == Agg(d, "Sales Rep")
           q == Quantile([i \in 1..Len(T) |-> T[i].Revenue])
           low == {t \in Range(T) : BelowThreshold(t.Revenue, q)}
       IN  IF low # {}
           THEN {Outcome("none", <<Msg("coach", small, NaNF)>>) :
                   small \in LowestFirst(low, CoachMax)}
           ELSE {Outcome("none", <<>>)}
  ELSE {Outcome("none", <<>>)}

(* lines 87-88 *)
InventoryRule ==
  IF ~\E c \in cols : Lower(c) \in InventoryNames
  THEN <<Msg("inventory", <<>>, NaNF)>> ELSE <<>>

(* make_recommendations with the time-of-day rule ahead of the channel rule *)
make_recommendations_peak_first(d) ==
  {IF a.raised # "none" THEN Outcome(a.raised, <<>>)
   ELSE IF b.raised # "none" THEN Outcome(b.raised, <<>>)
   ELSE Outcome("none", b.recs \o a.recs \o c.recs \o InventoryRule) :
     a \in ChannelRule(d), b \in TimeOfDayRule(d), c \in RepRule(d)}

(* the results make_recommendations can give: a list, or an exception *)
make_recommendations(d) ==
  {IF a.raised # "none" THEN Outcome(a.raised, <<>>)
   ELSE IF b.raised # "none" THEN Outcome(b.raised, <<>>)
   ELSE Outcome("none", a.recs \o b.recs \o c.recs \o InventoryRule) :
     a \in ChannelRule(d), b \in TimeOfDayRule(d), c \in RepRule(d)}

(* Executive Recommendations, lines 287-290 *)
Recommendations ==
  /\ pc = "recs"
  /\ \E o \in make_recommendations(df) :
       IF o.raised = "none"
       THEN /\ recs' = o.recs
            /\ pc' = "tables"
            /\ UNCHANGED raised
       ELSE /\ Raise(o.raised)
            /\ UNCHANGED recs
  /\ UNCHANGED <<uploaded, cols, df, selAll, metrics, kpi, view, chan, df_week, tod,
                 rep, cust, top_channels, top_reps, meta, text_report, pdf>>

----------------------------------------------------------------------------
(* Prepare tables for PDF, lines 293-295.  A table is kept with the rows    *)
(* head(TopN) returns, which both reports read.                             *)
TopTables(d, key) ==
  IF key \in cols
  THEN LET t == SortByRevenueDesc(RevenueBy(d, key))
       IN  {[sorted |-> t, head |-> R] : R \in HeadSets(t, TopN)}
  ELSE {[sorted |-> <<>>, head |-> {}]}

(* min().date() and max().date(): NaT stays NaT *)
MinDate(d) == IF ValidDates(d) = {} THEN NaN ELSE DateOf(SetMin(ValidDates(d)))
MaxDate(d) == IF ValidDates(d) = {} THEN NaN ELSE DateOf(SetMax(ValidDates(d)))

Meta(d) ==
  [rows |-> Len(d),
   period |-> IF "Date" \in cols THEN <<MinDate(d), MaxDate(d)>> ELSE <<>>]

PrepareTables ==
  /\ pc = "tables"
  /\ IF "Channel" \in cols /\ "Revenue" \notin cols
     THEN /\ Raise("KeyError:293")
          /\ UNCHANGED <<top_channels, top_reps, meta>>
     ELSE IF "Sales Rep" \in cols /\ "Revenue" \notin cols
     THEN /\ Raise("KeyError:294")
          /\ UNCHANGED <<top_channels, top_reps, meta>>
     ELSE /\ top_channels' \in {<<t>> : t \in TopTables(df, "Channel")}
          /\ top_reps' \in {<<t>> : t \in TopTables(df, "Sales Rep")}
          /\ meta' = <<Meta(df)>>
          /\ pc' = "text"
          /\ UNCHANGED raised
  /\ UNCHANGED <<uploaded, cols, df, selAll, metrics, kpi, view, chan, df_week, tod,
                 rep, cust, recs, text_report, pdf>>

(* create_text_report, lines 298-339 *)
create_text_report(m, tc, tr, rs, mt) ==
  [kpi |-> KpiBlock(m, 100, 100),
   channels |-> ClassesDesc(tc.head),
   reps |-> ClassesDesc(tr.head),
   recs |-> rs,
   meta |-> mt]

TextReport ==
  /\ pc = "text"
  /\ text_report' = <<create_text_report(metrics[1], top_channels[1], top_reps[1],
                                         recs, meta[1])>>
  /\ pc' = "pdf"
  /\ UNCHANGED <<uploaded, cols, df, selAll, raised, metrics, kpi, view, chan,
                 df_week, tod, rep, cust, recs, top_channels, top_reps, meta, pdf>>

(* create_pdf_report, lines 91-161: the KPI block, the first TopN rows of   *)
(* each table and the first PdfMaxRecs recommendations; meta is not printed *)
FirstN(s, n) == SubSeq(s, 1, IF Len(s) < n THEN Len(s) ELSE n)

create_pdf_report(m, tc, tr, rs, mt) ==
  [kpi |-> KpiBlock(m, 1, 10),
   channels |-> ClassesDesc(tc.head),
   reps |-> ClassesDesc(tr.head),
   recs |-> FirstN(rs, PdfMaxRecs)]

(* lines 354-365.  The try/except around create_pdf_report catches what the *)
(* PDF library raises; on the metrics and tables of the model it raises     *)
(* nothing.  The truncation and the ASCII cleaning of the printed labels    *)
(* are not modelled: labels are codes.                                      *)
PdfReport ==
  /\ pc = "pdf"
  /\ pdf' = <<create_pdf_report(metrics[1], top_channels[1], top_reps[1], recs, meta[1])>>
  /\ pc' = "done"
  /\ UNCHANGED <<uploaded, cols, df, selAll, raised, metrics, kpi, view, chan,
                 df_week, tod, rep, cust, recs, top_channels, top_reps, meta,
                 text_report>>

----------------------------------------------------------------------------
Next ==
  \/ LoadData
  \/ Filters
  \/ Metrics
  \/ ChannelSection
  \/ TrendSection
  \/ TimeOfDaySection
  \/ SalesRepSection
  \/ CustomerSection
  \/ Recommendations
  \/ PrepareTables
  \/ TextReport
  \/ PdfReport

Spec == Init /\ [][Next]_vars

----------------------------------------------------------------------------
(* Properties *)

AfterFilters == pc \notin {"load", "stopped", "filters"}
RecsReturned == pc \in {"tables", "text", "pdf", "done"}
           \/ (pc = "raised" /\ raised \in {"KeyError:293", "KeyError:294"})
RecsCalled == RecsReturned
           \/ (pc = "raised" /\ raised \in {"IndexError:70", "IndexError:77"})

Kinds(rs) == [i \in 1..Len(rs) |-> rs[i].kind]
HasKind(rs, k) == \E i \in 1..Len(rs) : rs[i].kind = k

RECURSIVE SumRevenue(_)
SumRevenue(S) ==
  IF S = {} THEN 0
  ELSE LET t == CHOOSE x \in S : TRUE IN t.Revenue + SumRevenue(S \ {t})

(* every Date of the uploaded file that parses is a calendar date, without *)
(* a time of day                                                           *)
DatesAtMidnight ==
  \A i \in 1..Len(uploaded[1].rows) :
     uploaded[1].rows[i]["Date"] >= 0 => uploaded[1].rows[i]["Date"] % TicksPerDay = 0

(* C1: in no run, whatever columns the dataset has, does a section raise:   *)
(* the script never ends in an uncaught exception.                          *)
C1_NoSectionRaises == pc # "raised"

(* C2: when the filters leave no row of a dataset that had rows (its dates *)
(* calendar dates), the run does not raise, and the PDF it ends with shows zeros in the KPI block    *)
(* and empty tables.                                                        *)
C2_EmptyDatasetReachesPdf ==
  (AfterFilters /\ Len(uploaded[1].rows) > 0 /\ DatesAtMidnight /\ Len(df) = 0) =>
     /\ pc # "raised"
     /\ pc = "done" =>
          /\ pdf[1].kpi.revenue = <<0>>
          /\ pdf[1].kpi.orders = 0
          /\ pdf[1].kpi.aov = <<0>>
          /\ pdf[1].channels = <<>>
          /\ pdf[1].reps = <<>>

(* C3: with every filter at its default, the filtered dataset has as many   *)
(* rows as the loaded one (its dates calendar dates), rows without a        *)
(* parseable Date included.                                                 *)
C3_DefaultFiltersKeepEveryRow ==
  (pc = "metrics" /\ selAll /\ DatesAtMidnight) => Len(df) = Len(uploaded[1].rows)

(* C4: when exactly two channel groups tie on revenue per conversion, the   *)
(* best and the worst message name different channels.                      *)
TwoChannelsTie ==
  /\ "Channel" \in cols /\ "Revenue" \in cols
  /\ LET ch == WithRPC(Agg(df, "Channel"))
     IN  Len(ch) = 2 /\ RatEq(ch[1].Rev_per_Conv, ch[2].Rev_per_Conv)

C4_TieNamesBothChannels ==
  (RecsReturned /\ TwoChannelsTie) =>
     /\ Len(recs) >= 2
     /\ recs[1].kind = "best" /\ recs[2].kind = "worst"
     /\ recs[1].who # recs[2].who

(* C5: once make_recommendations has been called, on any rows, its result   *)
(* has no best or worst message when Channel or Revenue is absent, and has  *)
(* the inventory note when no column is a stock or returns column.          *)
C5_ChannelPairAndInventoryNote ==
  RecsCalled =>
     /\ ("Channel" \notin cols \/ "Revenue" \notin cols) =>
          ~HasKind(recs, "best") /\ ~HasKind(recs, "worst")
     /\ (~\E c \in cols : Lower(c) \in InventoryNames) => HasKind(recs, "inventory")

(* C6: the Revenue sums of the groups of a shown table (by Channel, Time of *)
(* Day or Sales Rep) add up to the revenue compute_metrics reports.         *)
C6_GroupSumsAddUp ==
  /\ view["channel"] = "shown" => SumRevenue(TableRows(chan)) = metrics[1].revenue
  /\ view["tod"] = "shown" => SumRevenue(TableRows(tod)) = metrics[1].revenue
  /\ view["rep"] = "shown" => SumRevenue(TableRows(rep)) = metrics[1].revenue
  /\ view["cust"] = "shown" => SumRevenue(Range(cust)) = metrics[1].revenue

(* C7: whenever compute_metrics returns orders = 0, aov is 0 and conv_rate  *)
(* is undefined.                                                            *)
C7_ZeroOrdersGiveZeroAov ==
  (metrics # <<>> /\ metrics[1].orders = 0) =>
     /\ ~IsNaN(metrics[1].aov) /\ metrics[1].aov.num = 0
     /\ IsNaN(metrics[1].conv_rate)

ConversionsSum == IF "Conversions" \in cols THEN SumSeq(NotNa(Column(df, "Conversions"))) ELSE 0

(* C8, as stated: when Conversions sum to 0, orders is the row count, and   *)
(* conv_rate is undefined without the column and exactly 0 with it.         *)
C8_Original ==
  (metrics # <<>> /\ ConversionsSum = 0) =>
     /\ metrics[1].orders = Len(df)
     /\ "Conversions" \notin cols => IsNaN(metrics[1].conv_rate)
     /\ "Conversions" \in cols =>
          ~IsNaN(metrics[1].conv_rate) /\ metrics[1].conv_rate.num = 0

(* C8, amended: when Conversions sum to 0, orders is the row count;         *)
(* conv_rate is undefined when the column is absent or the dataset has no   *)
(* row, and exactly 0 when the column is present and there is a row.        *)
C8_ZeroConversions ==
  (metrics # <<>> /\ ConversionsSum = 0) =>
     /\ metrics[1].orders = Len(df)
     /\ ("Conversions" \notin cols \/ Len(df) = 0) => IsNaN(metrics[1].conv_rate)
     /\ ("Conversions" \in cols /\ Len(df) > 0) =>
          ~IsNaN(metrics[1].conv_rate) /\ metrics[1].conv_rate.num = 0

C8_Witness ==
  /\ metrics # <<>>
  /\ "Conversions" \in cols /\ Len(df) > 0 /\ ConversionsSum = 0
  /\ metrics[1].orders = Len(df)

(* the per-rep revenue sums and their 25th percentile *)
RepRevenue == Agg(df, "Sales Rep")
RevenueOf(k) == (CHOOSE t \in Range(RepRevenue) : t.key = k).Revenue
RepKeys == {RepRevenue[i].key : i \in 1..Len(RepRevenue)}
Q25 == Quantile([i \in 1..Len(RepRevenue) |-> RepRevenue[i].Revenue])
StrictlyBelow == {k \in RepKeys : RatLess(Rat(RevenueOf(k), 1), Q25)}
Coaching == SelectSeq(recs, LAMBDA m : m.kind = "coach")

(* C9: with Sales Rep and Revenue present, the result has at most one       *)
(* coaching message, and one exactly when some rep is strictly below the    *)
(* 25th percentile of the per-rep revenue; it lists at most 3 reps, no rep  *)
(* twice, each strictly below the percentile, in ascending order of         *)
(* revenue, and no rep it leaves out has less revenue than one it lists.    *)
C9_CoachingRule ==
  (RecsReturned /\ "Sales Rep" \in cols /\ "Revenue" \in cols) =>
     /\ Len(Coaching) <= 1
     /\ Len(Coaching) = 1 <=> StrictlyBelow # {}
     /\ Len(Coaching) = 1 =>
          LET who == Coaching[1].who IN
          /\ Len(who) >= 1 /\ Len(who) <= 3
          /\ Len(who) = 3 \/ Len(who) = Cardinality(StrictlyBelow)
          /\ \A i \in 1..Len(who) : who[i] \in StrictlyBelow
          /\ \A i, j \in 1..Len(who) : i < j =>
               who[i] # who[j] /\ RevenueOf(who[i]) <= RevenueOf(who[j])
          /\ \A k \in RepKeys \ Range(who) : \A i \in 1..Len(who) :
               RevenueOf(who[i]) <= RevenueOf(k)

(* more reps are below the percentile than the message lists *)
C9_Witness ==
  /\ pc = "done"
  /\ Len(Coaching) = 1 /\ Len(Coaching[1].who) = 3
  /\ Cardinality(StrictlyBelow) > 3

KindRank(k) ==
  CASE k = "best" -> 1 [] k = "worst" -> 2 [] k = "peak" -> 3
    [] k = "coach" -> 4 [] k = "inventory" -> 5 [] OTHER -> 0

(* C10: the result of make_recommendations lists its messages in the order  *)
(* best, worst, peak, coaching, inventory, each kind at most once and only  *)
(* when its rule applies, and the best and worst messages come together.    *)
C10_FixedOrder ==
  RecsReturned =>
     /\ \A i \in 1..Len(recs) : KindRank(recs[i].kind) > 0
     /\ \A i, j \in 1..Len(recs) : i < j => KindRank(recs[i].kind) < KindRank(recs[j].kind)
     /\ HasKind(recs, "best") <=> HasKind(recs, "worst")
     /\ HasKind(recs, "best") => ("Channel" \in cols /\ "Revenue" \in cols)
     /\ HasKind(recs, "peak") => ("Time of Day" \in cols /\ "Revenue" \in cols)
     /\ HasKind(recs, "coach") => ("Sales Rep" \in cols /\ "Revenue" \in cols)
     /\ HasKind(recs, "inventory") => ~\E c \in cols : Lower(c) \in InventoryNames

(* a result with all five messages *)
C10_Witness ==
  /\ pc = "done"
  /\ Kinds(recs) = <<"best", "worst", "peak", "coach", "inventory">>

====
